---- MODULE Spec2Model ----
(***************************************************************************)
(* Switchboard's ListenerClient (listener_client.py): one owner thread     *)
(* calling connect / disconnect / send_message, and the background         *)
(* handle_connection threads it starts, interleaved statement by           *)
(* statement.  The operating system's view of each socket and the bytes    *)
(* the listener sends are the environment.                                 *)
(***************************************************************************)
EXTENDS Integers, Sequences, FiniteSets, TLC

\* ---------------------------------------------------------------- bounds
\* sockets created by connect() in one run (one worker thread per success)
MaxConn == 2
\* messages created by message_protocol.create_*_message in one run
MaxMsgs == 2
\* non-empty chunks returned by recv in one run
MaxRecv == 1
\* symbols in one recv chunk (buffer_size)
MaxChunk == 2

\* -------------------------------------------------------- program constants
\* "if delta.total_seconds() > 2"
IdleThreshold == 2

NoSocket == 0
Sockets == 1..MaxConn
NoIp == ""
Host == "10.0.0.7"
IpValues == {NoIp, Host}

\* inbound symbols: "g" a message text that decodes and has a registered
\* route, "u" a message text that decodes to an unrecognized command, "x" text
\* that does not decode, NUL the '\x00' terminator
NUL == "0"
Symbols == {"g", "u", "x", NUL}

NoMsg == [id |-> 0, kind |-> "none"]

VARIABLES
    ip_address,                \* self.ip_address
    socket,                    \* self.socket: NoSocket (None) or a socket
    os,                        \* per socket object: "unborn", "fresh" (created,
                               \* not connected), "open", "reset" (connection
                               \* lost), "closed" (close() was called)
    close_socket,              \* self.close_socket
    message_queue,             \* self.message_queue, index 1 is the left end
    since_activity,            \* now - self.last_activity, in seconds, saturating
    handle_connection_thread,  \* self.handle_connection_thread (0: None)
    thread,                    \* the handle_connection threads, by socket created:
                               \* position, read_sockets / write_sockets (kept
                               \* while still to be used), the popped message,
                               \* the receive buffer
    owner,                     \* the calling thread: position and call results
    nextId,                    \* messages created so far
    recvs,                     \* non-empty chunks received so far
    dispatched,                \* messages route_message handed to a delegate
    keepalives,                \* keep-alive messages put on the queue so far
    wire,                      \* what was written to sockets, in order
    events,                    \* disconnect_delegate invocations, in order
    status,                    \* DeviceUnreal.status (DeviceStatus)
    changelist,                \* DeviceUnreal.changelist
    inflight_changelist,       \* self.inflight_changelist
    start_build_after_sync,    \* self.start_build_after_sync
    remote_programs_start_queue,   \* self._remote_programs_start_queue
    running_remote_program_names,  \* self._running_remote_program_names
    running_remote_program_ids,    \* self._running_remote_program_ids
    caller,                    \* the device's calling thread inside build()
    inbox,                     \* the decoded message handed to route_message
    routed,                    \* the last route_message: delegate, raised
    emitted,                   \* Qt signals emitted by the last device step
    asked,                     \* per sync command id: the changelist asked for
    stream,                    \* the bytes the listener writes to the socket
    readpos,                   \* how many of them recv has returned so far
    framed                     \* the frames handed to decode_message, in order

vars == <<ip_address, socket, os, close_socket, message_queue, since_activity,
          handle_connection_thread, thread, owner, nextId, recvs, dispatched,
          keepalives, wire, events, status, changelist, inflight_changelist,
          start_build_after_sync, remote_programs_start_queue,
          running_remote_program_names, running_remote_program_ids, caller,
          inbox, routed, emitted, asked, stream, readpos, framed>>

\* the listener's byte stream, followed read by read
framevars == <<stream, readpos, framed>>

\* the DeviceUnreal that owns the client
devvars == <<status, changelist, inflight_changelist, start_build_after_sync,
             remote_programs_start_queue, running_remote_program_names,
             running_remote_program_ids, caller, inbox, routed, emitted, asked>>

NoThread == [pc |-> "none", rs |-> NoSocket, ws |-> NoSocket, msg |-> NoMsg,
             buffer |-> <<>>]
IdleOwner == [pc |-> "idle", ret |-> "none", fail |-> "none", ev0 |-> 0]

\* ------------------------------------------------------------- properties
\* is_connected: the socket exists and getpeername() succeeds; getpeername
\* raises on a socket that is not connected, was reset or was closed
is_connected == socket # NoSocket /\ os[socket] = "open"

\* server_address
server_address == IF ip_address # NoIp THEN ip_address ELSE NoIp

Running(w) == thread[w].pc \notin {"none", "done"}
Finished(w) == thread[w].pc = "done"

\* ------------------------------------------------------------ send_message
\* deque.appendleft
appendleft(q, m) == <<m>> \o q

\* deque.pop: the right end
popright(q) == [msg |-> q[Len(q)], rest |-> SubSeq(q, 1, Len(q) - 1)]

\* one disconnect_delegate(unexpected=..., exception=...) call
Event(unexpected, by) == unexpected

\* a send_message that only logs the failure
send_failed_events_silent(evs, by) == evs

\* send_message's else branch: the disconnect delegate, unexpected=True
send_failed_events(evs, by) == Append(evs, Event(TRUE, by))

\* send_message's if branch: the queue after the call
send_enqueue(q, m) == appendleft(q, m)

\* message_protocol.create_*_message: a message with a fresh id
NewMsg(kind) == [id |-> nextId + 1, kind |-> kind]

\* send_message(message_bytes) called by `by`
send_message(m, by) ==
    IF is_connected
    THEN /\ message_queue' = send_enqueue(message_queue, m)
         /\ events' = events
    ELSE /\ message_queue' = message_queue
         /\ events' = send_failed_events(events, by)

\* ------------------------------------------------- DeviceUnreal: its state
\* messages the device creates in one run (start-process and kill messages)
MaxCmds == 3
\* changelists that can be asked for or reported
MaxChangelist == 2

Changelists == 1..MaxChangelist
\* the names launch, sync, build and _request_current_changelist_number
\* record in _remote_programs_start_queue
Labels == {"unreal", "sync", "build", "cstat"}
\* message ids of the device's messages, and the program id the listener
\* gives to the process started by the message with id m
Mids == 1..MaxCmds
PidOf(m) == MaxCmds + m
Pids == {PidOf(m) : m \in Mids}
\* 'returncode' of a program-ended message
ReturnCodes == {0, 5}
\* 'output' of a program-ended message, character by character: Whitespace
\* stands for any whitespace character, a digit d for the character "d"
Whitespace == 0
Outputs == {<<>>, <<Whitespace>>, <<2, Whitespace, 1, 2>>,
            <<2, Whitespace, 1, Whitespace>>}

\* a Python dict: a function on its keys
EmptyDict == [k \in {} |-> 0]
dict_has(d, k) == k \in DOMAIN d
dict_set(d, k, v) == [x \in DOMAIN d \cup {k} |-> IF x = k THEN v ELSE d[x]]
dict_pop(d, k) == [x \in DOMAIN d \ {k} |-> d[x]]

\* no message is being routed
NoEvent == [kind |-> "none", mid |-> 0, pid |-> 0, rc |-> 0, output |-> <<>>]
NotRouted == [delegate |-> "none", raised |-> FALSE]

\* DeviceUnreal.__init__
device_init ==
    /\ status = "Closed"
    /\ changelist = 1
    /\ inflight_changelist = 0
    /\ start_build_after_sync = FALSE
    /\ remote_programs_start_queue = EmptyDict
    /\ running_remote_program_names = EmptyDict
    /\ running_remote_program_ids = EmptyDict
    /\ caller = "idle"
    /\ inbox = NoEvent
    /\ routed = NotRouted
    /\ emitted = <<>>
    /\ asked = EmptyDict

\* no byte stream is followed
frame_init ==
    /\ stream = <<>>
    /\ readpos = 0
    /\ framed = <<>>

\* ------------------------------------------------------------------- Init
Init ==
    /\ ip_address \in IpValues
    /\ socket = NoSocket
    /\ os = [s \in Sockets |-> "unborn"]
    /\ close_socket = FALSE
    /\ message_queue = <<>>
    /\ since_activity = 0
    /\ handle_connection_thread = 0
    /\ thread = [s \in Sockets |-> NoThread]
    /\ owner = IdleOwner
    /\ nextId = 0
    /\ recvs = 0
    /\ dispatched = 0
    /\ keepalives = 0
    /\ wire = <<>>
    /\ events = <<>>
    /\ device_init
    /\ frame_init

\* ------------------------------------------------------------ owner thread
\* DeviceUnreal.on_setting_ip_address_changed: a new address, possibly empty
on_setting_ip_address_changed ==
    /\ owner.pc = "idle"
    /\ \E v \in IpValues \ {ip_address} : ip_address' = v
    /\ UNCHANGED <<keepalives, socket, os, close_socket, message_queue, since_activity,
                   handle_connection_thread, thread, owner, nextId, recvs,
                   dispatched, wire, events>>
    /\ UNCHANGED devvars
    /\ UNCHANGED framevars

\* a connect() that keeps the socket it failed to connect
connect_failed_handle_kept(s) == s

\* connect(), "except OSError": what self.socket is set to
connect_failed_handle(s) == NoSocket

\* connect() as DeviceUnreal.connect_listener calls it (no argument), up to
\* the creation of the socket: the early return when no address is known, or
\* close_socket, last_activity and a new socket that is not connected yet
connect_begin ==
    /\ owner.pc = "idle"
    /\ IF ip_address = NoIp
       THEN /\ owner' = [owner EXCEPT !.pc = "c_ret", !.ret = "false",
                                      !.fail = "noip"]
            /\ UNCHANGED <<socket, os, close_socket, since_activity>>
       ELSE /\ \E s \in Sockets :
                /\ os[s] = "unborn"
                /\ \A r \in Sockets : r < s => os[r] # "unborn"
                /\ socket' = s
                /\ os' = [os EXCEPT ![s] = "fresh"]
            /\ close_socket' = FALSE
            /\ since_activity' = 0
            /\ owner' = [owner EXCEPT !.pc = "connecting"]
    /\ UNCHANGED <<keepalives, ip_address, message_queue, handle_connection_thread, thread,
                   nextId, recvs, dispatched, wire, events>>
    /\ UNCHANGED devvars
    /\ UNCHANGED framevars

\* connect(), from self.socket.connect(...) on: the handle read again (None
\* when a worker cleared it meanwhile: AttributeError, not caught), the OS
\* connect succeeding (thread started) or failing with OSError
connect_end ==
    /\ owner.pc = "connecting"
    /\ \/ /\ socket = NoSocket
          /\ owner' = [owner EXCEPT !.pc = "c_ret", !.ret = "raised"]
          /\ UNCHANGED <<socket, os, handle_connection_thread, thread>>
       \/ /\ socket # NoSocket
          /\ os[socket] = "fresh"
          /\ os' = [os EXCEPT ![socket] = "open"]
          /\ thread' = [thread EXCEPT ![socket] = [NoThread EXCEPT !.pc = "loop"]]
          /\ handle_connection_thread' = socket
          /\ owner' = [owner EXCEPT !.pc = "c_ret", !.ret = "true"]
          /\ UNCHANGED socket
       \/ /\ socket # NoSocket
          /\ socket' = connect_failed_handle(socket)
          /\ owner' = [owner EXCEPT !.pc = "c_ret", !.ret = "false",
                                    !.fail = "oserror"]
          /\ UNCHANGED <<os, handle_connection_thread, thread>>
    /\ UNCHANGED <<keepalives, ip_address, close_socket, message_queue, since_activity,
                   nextId, recvs, dispatched, wire, events>>
    /\ UNCHANGED devvars
    /\ UNCHANGED framevars

\* connect() or disconnect() returns to the caller
owner_return ==
    /\ owner.pc \in {"c_ret", "d_ret"}
    /\ owner' = IdleOwner
    /\ UNCHANGED <<keepalives, ip_address, socket, os, close_socket, message_queue,
                   since_activity, handle_connection_thread, thread, nextId,
                   recvs, dispatched, wire, events>>
    /\ UNCHANGED devvars
    /\ UNCHANGED framevars

\* disconnect(): "if self.is_connected" found true, the notice created (a
\* call that finds it false returns at once and changes nothing)
disconnect_begin ==
    /\ owner.pc = "idle"
    /\ is_connected
    /\ nextId < MaxMsgs
    /\ owner' = [owner EXCEPT !.pc = "d_send", !.ev0 = Len(events)]
    /\ UNCHANGED <<keepalives, ip_address, socket, os, close_socket, message_queue,
                   since_activity, handle_connection_thread, thread, nextId,
                   recvs, dispatched, wire, events>>
    /\ UNCHANGED devvars
    /\ UNCHANGED framevars

\* disconnect(): self.send_message(msg)
disconnect_send ==
    /\ owner.pc = "d_send"
    /\ send_message(NewMsg("disconnect"), "owner")
    /\ nextId' = nextId + 1
    /\ owner' = [owner EXCEPT !.pc = "d_flag"]
    /\ UNCHANGED <<keepalives, ip_address, socket, os, close_socket, since_activity,
                   handle_connection_thread, thread, recvs, dispatched, wire>>
    /\ UNCHANGED devvars
    /\ UNCHANGED framevars

\* disconnect(): self.close_socket = True
disconnect_flag ==
    /\ owner.pc = "d_flag"
    /\ close_socket' = TRUE
    /\ owner' = [owner EXCEPT !.pc = "d_join"]
    /\ UNCHANGED <<keepalives, ip_address, socket, os, message_queue, since_activity,
                   handle_connection_thread, thread, nextId, recvs, dispatched,
                   wire, events>>
    /\ UNCHANGED devvars
    /\ UNCHANGED framevars

\* disconnect(): self.handle_connection_thread.join() returns once that
\* thread has ended, however it ended
disconnect_join ==
    /\ owner.pc = "d_join"
    /\ Finished(handle_connection_thread)
    /\ owner' = [owner EXCEPT !.pc = "d_ret"]
    /\ UNCHANGED <<keepalives, ip_address, socket, os, close_socket, message_queue,
                   since_activity, handle_connection_thread, thread, nextId,
                   recvs, dispatched, wire, events>>
    /\ UNCHANGED devvars
    /\ UNCHANGED framevars

\* a command sent by the owner: DeviceUnreal creates a message and calls
\* unreal_client.send_message(msg)
owner_send ==
    /\ owner.pc = "idle"
    /\ nextId < MaxMsgs
    /\ send_message(NewMsg("msg"), "owner")
    /\ nextId' = nextId + 1
    /\ UNCHANGED <<keepalives, ip_address, socket, os, close_socket, since_activity,
                   handle_connection_thread, thread, owner, recvs, dispatched, wire>>
    /\ UNCHANGED devvars
    /\ UNCHANGED framevars

\* ------------------------------------------------- message_protocol (codec)
\* decode_message(buffer): the frame's text parsed; it raises on text that is
\* not a message (here: an empty frame or one holding "x")
decode_ok(buf) == buf # <<>> /\ \A i \in 1..Len(buf) : buf[i] # "x"

\* route_message(message): TRUE when a delegate is called, FALSE when it
\* raises (an unrecognized command ends in "raise ValueError")
route_ok(buf) == buf[1] = "g"

\* process_received_data(buffer, received_data): symbol by symbol; at the
\* terminator the frame is decoded OUTSIDE the try block, then the buffer is
\* cleared and the message routed INSIDE it.  raised: decode_message raised
\* and the exception left the function
\* frames: the frames handed to decode_message, in order
RECURSIVE process_symbols(_, _, _, _)
process_symbols(buf, data, n, frames) ==
    IF data = <<>>
    THEN [buffer |-> buf, routed |-> n, raised |-> FALSE, frames |-> frames]
    ELSE IF Head(data) # NUL
         THEN process_symbols(Append(buf, Head(data)), Tail(data), n, frames)
         ELSE IF decode_ok(buf)
              THEN process_symbols(<<>>, Tail(data),
                                   IF route_ok(buf) THEN n + 1 ELSE n,
                                   Append(frames, buf))
              ELSE [buffer |-> buf, routed |-> n, raised |-> TRUE,
                    frames |-> Append(frames, buf)]
process_received_data(buf, data, n) == process_symbols(buf, data, n, <<>>)

RECURSIVE SeqsUpTo(_, _)
SeqsUpTo(S, n) ==
    IF n = 0 THEN {<<>>}
    ELSE LET shorter == SeqsUpTo(S, n - 1)
         IN shorter \cup {Append(q, x) : q \in shorter, x \in S}

\* a frame's text is one of these symbols
Texts == Symbols \ {NUL}

\* the listener writes frames, each a text and a terminator; what one
\* recv(buffer_size) can return is any non-empty piece of that stream, up to
\* MaxChunk symbols, starting where the previous recv ended (inside a frame
\* when the buffer holds its text)
StreamPiece(chunk, inFrame) ==
    \A i \in 1..Len(chunk) :
        (chunk[i] = NUL) <=> (IF inFrame THEN i % 2 = 1 ELSE i % 2 = 0)

Chunks(buf) ==
    {c \in SeqsUpTo(Symbols, MaxChunk) \ {<<>>} : StreamPiece(c, buf # <<>>)}

\* ------------------------------------------------------- handle_connection
\* the thread ends: by return, by break, or by an exception nothing catches
Exit(w, why) == [NoThread EXCEPT !.pc = "done"]

\* a socket call on a socket in OS state st raises: reset-by-peer surfaces as
\* ConnectionResetError or as another OSError (EPIPE, ETIMEDOUT); a socket
\* that is not connected or was closed gives a plain OSError
SocketErrors(st) ==
    IF st = "reset" THEN {"ConnectionResetError", "OSError"} ELSE {"OSError"}

\* "except OSError as e": handle cleared, delegate(unexpected=True), return
oserror_handler(w) ==
    /\ socket' = NoSocket
    /\ events' = Append(events, Event(TRUE, w))
    /\ thread' = [thread EXCEPT ![w] = Exit(w, "oserror")]
    /\ os' = os

\* "except ConnectionResetError as e": self.socket.shutdown(), close(), handle
\* cleared, delegate(unexpected=True), return.  shutdown() on a handle that is
\* None, not connected or closed raises inside the handler, which ends the
\* thread there; on a reset connection it raises or not, by platform
reset_handler(w) ==
    \/ /\ \/ socket = NoSocket
          \/ /\ socket # NoSocket
             /\ os[socket] \in {"fresh", "reset", "closed"}
       /\ thread' = [thread EXCEPT ![w] = Exit(w, "handler")]
       /\ UNCHANGED <<socket, os, events>>
    \/ /\ socket # NoSocket
       /\ os[socket] \in {"open", "reset"}
       /\ os' = [os EXCEPT ![socket] = "closed"]
       /\ socket' = NoSocket
       /\ events' = Append(events, Event(TRUE, w))
       /\ thread' = [thread EXCEPT ![w] = Exit(w, "reset")]

raise_in_loop(w, exc) ==
    IF exc = "ConnectionResetError" THEN reset_handler(w) ELSE oserror_handler(w)

\* where the iteration goes once the send part is over
AfterSend(rs) == IF rs = NoSocket THEN "idlechk" ELSE "recv"

\* thread start: the first "while self.is_connected"
hc_loop(w) ==
    /\ thread[w].pc = "loop"
    /\ thread' = [thread EXCEPT ![w] =
                    IF is_connected THEN [@ EXCEPT !.pc = "select"]
                    ELSE Exit(w, "cond")]
    /\ UNCHANGED <<keepalives, ip_address, socket, os, close_socket, message_queue,
                   since_activity, handle_connection_thread, owner, nextId,
                   recvs, dispatched, wire, events>>
    /\ UNCHANGED devvars
    /\ UNCHANGED framevars

\* the queue after "if len(self.message_queue) > 0: ... pop()", given the
\* select result: the message leaves the queue whatever write_sockets holds
queue_after_pop(q, writable) == IF Len(q) > 0 THEN popright(q).rest ELSE q

\* select.select([self.socket], [self.socket], [], 0) and the pop that
\* follows.  select raises TypeError on None and ValueError on a closed socket
\* (neither is caught); a socket in an error state reports readable
hc_select(w) ==
    /\ thread[w].pc = "select"
    /\ \/ /\ socket = NoSocket \/ (socket # NoSocket /\ os[socket] = "closed")
          /\ thread' = [thread EXCEPT ![w] = Exit(w, "select")]
          /\ UNCHANGED message_queue
       \/ /\ socket # NoSocket
          /\ os[socket] # "closed"
          /\ \E r \in BOOLEAN, wr \in BOOLEAN :
                /\ os[socket] # "open" => r
                /\ (os[socket] = "open" /\ r) => recvs < MaxRecv
                /\ LET rs == IF r THEN socket ELSE NoSocket
                       sending == Len(message_queue) > 0 /\ wr
                   IN /\ message_queue' = queue_after_pop(message_queue, wr)
                      /\ thread' = [thread EXCEPT ![w] =
                           [@ EXCEPT !.rs = rs,
                                     !.ws = IF sending THEN socket ELSE NoSocket,
                                     !.msg = IF sending
                                             THEN popright(message_queue).msg
                                             ELSE NoMsg,
                                     !.pc = IF sending THEN "send"
                                            ELSE AfterSend(rs)]]
    /\ UNCHANGED <<keepalives, ip_address, socket, os, close_socket, since_activity,
                   handle_connection_thread, owner, nextId, recvs, dispatched,
                   wire, events>>
    /\ UNCHANGED devvars
    /\ UNCHANGED framevars

\* "for ws in write_sockets: ws.send(message_bytes)" and last_activity
hc_send(w) ==
    /\ thread[w].pc = "send"
    /\ LET t == thread[w]
       IN \/ /\ os[t.ws] = "open"
             /\ wire' = Append(wire, [sock |-> t.ws, msg |-> t.msg])
             /\ since_activity' = 0
             /\ thread' = [thread EXCEPT ![w] =
                             [@ EXCEPT !.msg = NoMsg, !.ws = NoSocket,
                                       !.pc = AfterSend(t.rs)]]
             /\ UNCHANGED <<socket, os, events>>
          \/ /\ os[t.ws] # "open"
             /\ \E exc \in SocketErrors(os[t.ws]) : raise_in_loop(w, exc)
             /\ UNCHANGED <<wire, since_activity>>
    /\ UNCHANGED <<keepalives, ip_address, close_socket, message_queue,
                   handle_connection_thread, owner, nextId, recvs, dispatched>>
    /\ UNCHANGED devvars
    /\ UNCHANGED framevars

\* "for rs in read_sockets: received_data = rs.recv(buffer_size).decode()",
\* process_received_data and last_activity.  recv returns a chunk (empty
\* when nothing more is sent); bytes.decode() raises UnicodeDecodeError on a
\* chunk that ends inside a character, decode_message raises on a bad frame:
\* neither is an OSError, so either ends the thread
hc_recv(w) ==
    /\ thread[w].pc = "recv"
    /\ LET t == thread[w]
       IN \/ /\ os[t.rs] = "open"
             /\ recvs < MaxRecv
             /\ \E chunk \in Chunks(t.buffer) :
                  LET res == process_received_data(t.buffer, chunk, 0)
                  IN /\ recvs' = recvs + 1
                     /\ dispatched' = dispatched + res.routed
                     /\ IF res.raised
                        THEN /\ thread' = [thread EXCEPT ![w] = Exit(w, "decode")]
                             /\ UNCHANGED since_activity
                        ELSE /\ thread' = [thread EXCEPT ![w] =
                                  [@ EXCEPT !.buffer = res.buffer,
                                            !.rs = NoSocket,
                                            !.pc = "idlechk"]]
                             /\ since_activity' = 0
             /\ UNCHANGED <<socket, os, events>>
          \/ /\ os[t.rs] = "open"
             /\ recvs < MaxRecv
             /\ recvs' = recvs + 1
             /\ thread' = [thread EXCEPT ![w] = Exit(w, "unicode")]
             /\ UNCHANGED <<socket, os, events, since_activity, dispatched>>
          \/ /\ os[t.rs] # "open"
             /\ \E exc \in SocketErrors(os[t.rs]) : raise_in_loop(w, exc)
             /\ UNCHANGED <<since_activity, recvs, dispatched>>
    /\ UNCHANGED <<keepalives, ip_address, close_socket, message_queue,
                   handle_connection_thread, owner, nextId, wire>>
    /\ UNCHANGED devvars
    /\ UNCHANGED framevars

\* "delta = now - last_activity; if delta.total_seconds() > 2:
\* send_message(keep alive)"
hc_idle(w) ==
    /\ thread[w].pc = "idlechk"
    /\ IF since_activity > IdleThreshold
       THEN /\ nextId < MaxMsgs
            /\ send_message(NewMsg("keepalive"), w)
            /\ nextId' = nextId + 1
            /\ keepalives' = IF is_connected THEN keepalives + 1 ELSE keepalives
       ELSE UNCHANGED <<message_queue, events, nextId, keepalives>>
    /\ thread' = [thread EXCEPT ![w] = [@ EXCEPT !.pc = "close"]]
    /\ UNCHANGED <<ip_address, socket, os, close_socket, since_activity,
                   handle_connection_thread, owner, recvs, dispatched, wire>>
    /\ UNCHANGED devvars
    /\ UNCHANGED framevars

\* "if self.close_socket:" shutdown, close, delegate(unexpected=False), handle
\* cleared, break; otherwise the next "while self.is_connected".  With the
\* flag set, self.socket None gives AttributeError (not caught); shutdown on a
\* socket that is not connected raises OSError (the OSError handler)
hc_close(w) ==
    /\ thread[w].pc = "close"
    /\ IF ~close_socket
       THEN /\ thread' = [thread EXCEPT ![w] =
                  IF is_connected
                  THEN [@ EXCEPT !.pc = "select"]
                  ELSE Exit(w, "cond")]
            /\ UNCHANGED <<socket, os, events>>
       ELSE \/ /\ socket = NoSocket
               /\ thread' = [thread EXCEPT ![w] = Exit(w, "attribute")]
               /\ UNCHANGED <<socket, os, events>>
            \/ /\ socket # NoSocket
               /\ os[socket] \in {"open", "reset"}
               /\ os' = [os EXCEPT ![socket] = "closed"]
               /\ events' = Append(events, Event(FALSE, w))
               /\ socket' = NoSocket
               /\ thread' = [thread EXCEPT ![w] = Exit(w, "graceful")]
            \/ /\ socket # NoSocket
               /\ os[socket] # "open"
               /\ oserror_handler(w)
    /\ UNCHANGED <<keepalives, ip_address, close_socket, message_queue, since_activity,
                   handle_connection_thread, owner, nextId, recvs, dispatched,
                   wire>>
    /\ UNCHANGED devvars
    /\ UNCHANGED framevars

\* ------------------------------------------------------------- environment
\* more than the idle threshold passes without activity.  The clock is read
\* only by the idle check, and every send, receive and connect resets it, so
\* the time that matters is what has passed when a worker reaches the check
tick ==
    /\ \E w \in Sockets : thread[w].pc = "idlechk"
    /\ since_activity <= IdleThreshold
    /\ since_activity' = IdleThreshold + 1
    /\ UNCHANGED <<keepalives, ip_address, socket, os, close_socket, message_queue,
                   handle_connection_thread, thread, owner, nextId, recvs,
                   dispatched, wire, events>>
    /\ UNCHANGED devvars
    /\ UNCHANGED framevars

\* some thread still holds socket s
Referenced(s) ==
    \/ socket = s
    \/ \E w \in Sockets : thread[w].rs = s \/ thread[w].ws = s

\* the connection of an open socket that is still in use is lost (reset by
\* the peer, timeout)
peer_reset ==
    /\ \E s \in Sockets :
          /\ os[s] = "open"
          /\ Referenced(s)
          /\ os' = [os EXCEPT ![s] = "reset"]
    /\ UNCHANGED <<keepalives, ip_address, socket, close_socket, message_queue,
                   since_activity, handle_connection_thread, thread, owner,
                   nextId, recvs, dispatched, wire, events>>
    /\ UNCHANGED devvars
    /\ UNCHANGED framevars

\* ------------------------------------------------------------ specification
WorkerStep(w) ==
    \/ hc_loop(w)
    \/ hc_select(w)
    \/ hc_send(w)
    \/ hc_recv(w)
    \/ hc_idle(w)
    \/ hc_close(w)

OwnerStep ==
    \/ on_setting_ip_address_changed
    \/ connect_begin
    \/ connect_end
    \/ owner_return
    \/ disconnect_begin
    \/ disconnect_send
    \/ disconnect_flag
    \/ disconnect_join
    \/ owner_send

Next ==
    \/ OwnerStep
    \/ \E w \in Sockets : WorkerStep(w)
    \/ tick
    \/ peer_reset

Spec == Init /\ [][Next]_vars

\* ------------------------------------------- DeviceUnreal: its operations
\* The device's fields, the client's queue and the delegate calls, as one
\* value the methods below take and return; emitted collects the signals of
\* the step being taken
Dev ==
    [status |-> status,
     changelist |-> changelist,
     inflight_changelist |-> inflight_changelist,
     start_build_after_sync |-> start_build_after_sync,
     start_queue |-> remote_programs_start_queue,
     names |-> running_remote_program_names,
     ids |-> running_remote_program_ids,
     message_queue |-> message_queue,
     events |-> events,
     nextId |-> nextId,
     emitted |-> <<>>,
     asked |-> asked]

SetDev(d) ==
    /\ status' = d.status
    /\ changelist' = d.changelist
    /\ inflight_changelist' = d.inflight_changelist
    /\ start_build_after_sync' = d.start_build_after_sync
    /\ remote_programs_start_queue' = d.start_queue
    /\ running_remote_program_names' = d.names
    /\ running_remote_program_ids' = d.ids
    /\ message_queue' = d.message_queue
    /\ events' = d.events
    /\ nextId' = d.nextId
    /\ emitted' = d.emitted
    /\ asked' = d.asked

\* a device that signals every disconnect
on_listener_disconnect_always(d, unexpected) ==
    [d EXCEPT !.emitted = Append(@, "signal_device_client_disconnected")]

\* on_listener_disconnect(unexpected, exception)
on_listener_disconnect(d, unexpected) ==
    IF unexpected
    THEN [d EXCEPT !.emitted = Append(@, "signal_device_client_disconnected")]
    ELSE d

\* message_protocol.create_*_message: the id of the message it makes, one
\* never made before (uuid4 in the original; here the next of a counter)
create_message_id(d) == d.nextId + 1

\* message_protocol.create_*_message followed by unreal_client.send_message:
\* the message takes the next id; arg is the program id of a kill message
device_send(d, kind, arg) ==
    LET m == [id |-> create_message_id(d), kind |-> kind, arg |-> arg]
        d1 == [d EXCEPT !.nextId = @ + 1]
    IN IF is_connected
       THEN [d1 EXCEPT !.message_queue = send_enqueue(@, m)]
       ELSE on_listener_disconnect(
                [d1 EXCEPT !.events = send_failed_events(@, "device")], TRUE)

\* "mid, msg = create_start_process_message(...);
\*  self._remote_programs_start_queue[mid] = name; send_message(msg)"
start_process(d, name) ==
    device_send([d EXCEPT !.start_queue =
                              dict_set(@, create_message_id(d), name)],
                "start", 0)

\* sync(changelist)
sync(d, c) ==
    LET d1 == [d EXCEPT !.inflight_changelist = c,
                        !.asked = dict_set(@, create_message_id(d), c)]
    IN [start_process(d1, "sync") EXCEPT !.status = "Syncing"]

\* build(), "if self.status == DeviceStatus.SYNCING" taken
build_deferred(d) == [d EXCEPT !.start_build_after_sync = TRUE]

\* the status build() leaves after sending the build command
build_status_kept(st) == st
build_status(st) == "Building"

\* build(), the rest
build_issue(d) ==
    [start_process(d, "build") EXCEPT !.status = build_status(d.status)]

\* build() run without interruption (as on_program_ended calls it)
build(d) == IF d.status = "Syncing" THEN build_deferred(d) ELSE build_issue(d)

\* launch(map_name)
launch(d) == start_process(d, "unreal")

\* _request_current_changelist_number()
request_current_changelist_number(d) == start_process(d, "cstat")

\* close(force): the program the kill message names
kill_target_nobody(ids) == 0
kill_target(ids) == ids["unreal"]

\* close(force)
close(d) ==
    IF dict_has(d.ids, "unreal")
    THEN device_send(d, "kill", kill_target(d.ids))
    ELSE [d EXCEPT !.status = "Closed"]

\* what a delegate leaves: the device, and whether an exception left it
Returned(d) == [d |-> d, raised |-> FALSE]
\* an exception nobody hears of
Raised_unnoticed(d) == [d |-> d, raised |-> FALSE]
Raised(d) == [d |-> d, raised |-> TRUE]

\* on_program_started: the status after a program named name was started
started_status_open(name, st) == "Open"
started_status(name, st) == IF name = "unreal" THEN "Open" ELSE st

\* on_program_started(program_id, message_id); dict.pop raises KeyError
on_program_started(d, program_id, message_id) ==
    IF ~dict_has(d.start_queue, message_id) THEN Raised(d)
    ELSE LET program_name == d.start_queue[message_id]
         IN Returned([d EXCEPT
                 !.start_queue = dict_pop(@, message_id),
                 !.status = started_status(program_name, @),
                 !.names = dict_set(@, program_id, program_name),
                 !.ids = dict_set(@, program_name, program_id)])

\* on_program_start_failed: the status after name could not be started
start_failed_status_kept(name, st) == st
start_failed_status(name, st) ==
    IF name \in {"sync", "build"} THEN "Closed" ELSE st

\* on_program_start_failed(error, message_id)
on_program_start_failed(d, message_id) ==
    IF ~dict_has(d.start_queue, message_id) THEN Raised(d)
    ELSE LET program_name == d.start_queue[message_id]
         IN Returned([d EXCEPT
                 !.start_queue = dict_pop(@, message_id),
                 !.status = start_failed_status(program_name, @)])

\* a sync whose end changes nothing
sync_ended_ignored(d, returncode) == d

\* on_program_ended, "elif program_name == 'sync'"
sync_ended(d, returncode) ==
    LET d1 == [d EXCEPT !.status = "Closed"]
        d2 == IF returncode # 0
              THEN [d1 EXCEPT !.emitted = Append(@, "signal_device_sync_failed")]
              ELSE LET d3 == [d1 EXCEPT !.changelist = d1.inflight_changelist]
                   IN IF d3.start_build_after_sync
                      THEN build([d3 EXCEPT !.start_build_after_sync = FALSE])
                      ELSE d3
    IN [d2 EXCEPT !.inflight_changelist = 0]

\* str.split(): the maximal runs of non-whitespace characters, in order;
\* tokens is the list so far, token the run being read, and a run of digits
\* is written as the number it spells
RECURSIVE split_from(_, _, _, _)
split_from(output, i, tokens, token) ==
    IF i > Len(output)
    THEN IF token = <<>> THEN tokens ELSE tokens \o token
    ELSE IF output[i] = Whitespace
         THEN split_from(output, i + 1,
                         IF token = <<>> THEN tokens ELSE tokens \o token,
                         <<>>)
         ELSE split_from(output, i + 1, tokens,
                         IF token = <<>> THEN <<output[i]>>
                         ELSE <<10 * token[1] + output[i]>>)
split(output) == split_from(output, 1, <<>>, <<>>)

\* the first token
first_changelist(changelists) == changelists[1]
\* "changelists[-1]"
last_changelist(changelists) == changelists[Len(changelists)]

\* on_program_ended, "elif program_name == 'cstat'"; the LOGGER.error of the
\* else branch is kept with the signals of the step
cstat_ended(d, output) ==
    LET changelists == split(output)
    IN IF changelists # <<>>
       THEN [d EXCEPT !.changelist = last_changelist(changelists)]
       ELSE [d EXCEPT !.emitted =
                 Append(@, "LOGGER.error: Could not retrieve changelists")]

\* on_program_ended(program_id, returncode, output); either pop can raise
on_program_ended(d, program_id, returncode, output) ==
    IF ~dict_has(d.names, program_id) THEN Raised(d)
    ELSE LET program_name == d.names[program_id]
             d1 == [d EXCEPT !.names = dict_pop(@, program_id)]
         IN IF ~dict_has(d1.ids, program_name) THEN Raised(d1)
            ELSE LET d2 == [d1 EXCEPT !.ids = dict_pop(@, program_name)]
                 IN CASE program_name = "unreal" ->
                           Returned([d2 EXCEPT !.status = "Closed"])
                      [] program_name = "sync" ->
                           Returned(sync_ended(d2, returncode))
                      [] program_name = "build" ->
                           Returned([d2 EXCEPT !.status = "Closed"])
                      [] program_name = "cstat" ->
                           Returned(cstat_ended(d2, output))

\* on_program_kill_failed(program_id, error): its first statement calls
\* .pop on self._running_remote_program_ids["unreal"], which is a KeyError
\* when nothing is registered and otherwise a UUID, that has no pop
\* (AttributeError); the statements after it are never reached
on_program_kill_failed(d, program_id) == Raised(d)

\* route_message(message) for the messages about programs: the delegate
\* called and what it did; program_killed_delegate is never set
route_message(d, e) ==
    CASE e.kind = "program started" ->
           [delegate |-> "program_started_delegate",
            out |-> on_program_started(d, e.pid, e.mid)]
      [] e.kind = "program start failed" ->
           [delegate |-> "program_start_failed_delegate",
            out |-> on_program_start_failed(d, e.mid)]
      [] e.kind = "program ended" ->
           [delegate |-> "program_ended_delegate",
            out |-> on_program_ended(d, e.pid, e.rc, e.output)]
      [] e.kind = "program killed" ->
           [delegate |-> "none", out |-> Returned(d)]
      [] e.kind = "program kill failed" ->
           [delegate |-> "program_kill_failed_delegate",
            out |-> on_program_kill_failed(d, e.pid)]

\* --------------------------------------------- DeviceUnreal: its behaviour
\* the client's state the device's methods leave alone
clientvars == <<ip_address, socket, os, close_socket, since_activity,
                handle_connection_thread, thread, owner, recvs, dispatched,
                keepalives, wire, framevars>>

\* a device whose connect_listener has succeeded: the client is connected
\* and its thread is running
DeviceInit ==
    /\ ip_address = Host
    /\ socket = 1
    /\ os = [s \in Sockets |-> IF s = 1 THEN "open" ELSE "unborn"]
    /\ close_socket = FALSE
    /\ message_queue = <<>>
    /\ since_activity = 0
    /\ handle_connection_thread = 1
    /\ thread = [s \in Sockets |->
                   IF s = 1 THEN [NoThread EXCEPT !.pc = "loop"] ELSE NoThread]
    /\ owner = IdleOwner
    /\ nextId = 0
    /\ recvs = 0
    /\ dispatched = 0
    /\ keepalives = 0
    /\ wire = <<>>
    /\ events = <<>>
    /\ device_init
    /\ frame_init

\* the calling thread: sync(changelist)
device_sync ==
    /\ caller = "idle"
    /\ nextId < MaxCmds
    /\ \E c \in Changelists : SetDev(sync(Dev, c))
    /\ routed' = NotRouted
    /\ UNCHANGED <<caller, inbox, clientvars>>

\* the calling thread: build(), "if self.status == DeviceStatus.SYNCING"
device_build_test ==
    /\ caller = "idle"
    /\ nextId < MaxCmds
    /\ caller' = IF status = "Syncing" THEN "build_defer" ELSE "build_issue"
    /\ SetDev(Dev)
    /\ routed' = NotRouted
    /\ UNCHANGED <<inbox, clientvars>>

\* the calling thread: build(), "self.start_build_after_sync = True; return"
device_build_defer ==
    /\ caller = "build_defer"
    /\ SetDev(build_deferred(Dev))
    /\ caller' = "idle"
    /\ routed' = NotRouted
    /\ UNCHANGED <<inbox, clientvars>>

\* the calling thread: build(), the build command
device_build_issue ==
    /\ caller = "build_issue"
    /\ nextId < MaxCmds
    /\ SetDev(build_issue(Dev))
    /\ caller' = "idle"
    /\ routed' = NotRouted
    /\ UNCHANGED <<inbox, clientvars>>

\* the calling thread: launch(map_name)
device_launch ==
    /\ caller = "idle"
    /\ nextId < MaxCmds
    /\ SetDev(launch(Dev))
    /\ routed' = NotRouted
    /\ UNCHANGED <<caller, inbox, clientvars>>

\* the calling thread: _request_current_changelist_number(), which only
\* connect_listener calls, as the device's first command on the connection
device_request_changelist ==
    /\ caller = "idle"
    /\ nextId = 0
    /\ SetDev(request_current_changelist_number(Dev))
    /\ routed' = NotRouted
    /\ UNCHANGED <<caller, inbox, clientvars>>

\* the calling thread: close(force)
device_close ==
    /\ caller = "idle"
    /\ dict_has(running_remote_program_ids, "unreal") => nextId < MaxCmds
    /\ SetDev(close(Dev))
    /\ routed' = NotRouted
    /\ UNCHANGED <<caller, inbox, clientvars>>

\* the start-process message with id m is on the client's queue
Sent(m) ==
    \E i \in 1..Len(message_queue) :
        message_queue[i].id = m /\ message_queue[i].kind = "start"

\* a program-ended message whose returncode and output the device can tell
\* from another's: the output is split only for "cstat", the returncode is
\* looked at for "sync" and "build" (and is any for "cstat"); otherwise 0
\* and "" stand for all
OutputRead(e) ==
    LET known == dict_has(running_remote_program_names, e.pid)
        name == IF known THEN running_remote_program_names[e.pid] ELSE "none"
    IN /\ e.output # <<>> => name = "cstat"
       /\ e.rc # 0 => name \in {"sync", "build", "cstat"}

\* what the listener can send about programs: the outcome of a start command
\* it was sent (or of one the device no longer waits for), the end of a
\* program, the outcome of a kill
Replies ==
    {[kind |-> k, mid |-> m, pid |-> PidOf(m), rc |-> 0, output |-> <<>>] :
        k \in {"program started", "program start failed"},
        m \in {x \in Mids : dict_has(remote_programs_start_queue, x) => Sent(x)}}
    \cup
    {e \in [kind : {"program ended"}, mid : {0}, pid : Pids,
             rc : ReturnCodes, output : Outputs] : OutputRead(e)}
    \cup
    {[kind |-> k, mid |-> 0, pid |-> p, rc |-> 0, output |-> <<>>] :
        k \in {"program killed", "program kill failed"}, p \in Pids}

\* the client's thread has framed and decoded a message of the listener
listener_reply ==
    /\ inbox = NoEvent
    /\ \E e \in Replies : inbox' = e
    /\ routed' = NotRouted
    /\ emitted' = <<>>
    /\ UNCHANGED <<status, changelist, inflight_changelist,
                   start_build_after_sync, remote_programs_start_queue,
                   running_remote_program_names, running_remote_program_ids,
                   caller, asked, message_queue, events, nextId, clientvars>>

\* process_received_data: "try: self.route_message(message) / except:
\* LOGGER.error(...)": the delegate runs on the client's thread and what it
\* raises is logged and dropped
device_route ==
    /\ inbox # NoEvent
    /\ LET r == route_message(Dev, inbox)
       IN /\ r.out.d.nextId <= MaxCmds
          /\ SetDev(r.out.d)
          /\ routed' = [delegate |-> r.delegate, raised |-> r.out.raised]
    /\ inbox' = NoEvent
    /\ UNCHANGED <<caller, clientvars>>

\* the client's thread meets an OSError: handle cleared, disconnect delegate
connection_lost ==
    /\ is_connected
    /\ Running(socket)
    /\ oserror_handler(socket)
    /\ emitted' = on_listener_disconnect(Dev, TRUE).emitted
    /\ routed' = NotRouted
    /\ UNCHANGED <<status, changelist, inflight_changelist,
                   start_build_after_sync, remote_programs_start_queue,
                   running_remote_program_names, running_remote_program_ids,
                   caller, inbox, asked, message_queue, nextId,
                   ip_address, close_socket, since_activity,
                   handle_connection_thread, owner, recvs, dispatched,
                   keepalives, wire, framevars>>

\* "if self.close_socket:" with the flag set and the socket connected:
\* shutdown, close, delegate(unexpected=False), handle cleared, break
graceful_close(w) ==
    /\ os' = [os EXCEPT ![socket] = "closed"]
    /\ events' = Append(events, Event(FALSE, w))
    /\ socket' = NoSocket
    /\ thread' = [thread EXCEPT ![w] = Exit(w, "graceful")]

\* the calling thread: disconnect_listener(), that is disconnect() on a
\* connected client: the disconnect message is queued, the flag set, and the
\* call returns when the client's thread, at its next "if self.close_socket",
\* has closed the socket and called the delegate
device_disconnect_listener ==
    /\ caller = "idle"
    /\ inbox = NoEvent
    /\ is_connected
    /\ Running(socket)
    /\ nextId < MaxCmds
    /\ message_queue' = send_enqueue(message_queue,
            [id |-> create_message_id(Dev), kind |-> "disconnect", arg |-> 0])
    /\ nextId' = nextId + 1
    /\ close_socket' = TRUE
    /\ graceful_close(socket)
    /\ emitted' = on_listener_disconnect(Dev, FALSE).emitted
    /\ routed' = NotRouted
    /\ UNCHANGED <<status, changelist, inflight_changelist,
                   start_build_after_sync, remote_programs_start_queue,
                   running_remote_program_names, running_remote_program_ids,
                   caller, inbox, asked, ip_address, since_activity,
                   handle_connection_thread, owner, recvs, dispatched,
                   keepalives, wire, framevars>>

DeviceNext ==
    \/ device_sync
    \/ device_build_test
    \/ device_build_defer
    \/ device_build_issue
    \/ device_launch
    \/ device_request_changelist
    \/ device_close
    \/ listener_reply
    \/ device_route
    \/ connection_lost
    \/ device_disconnect_listener

DeviceSpec == DeviceInit /\ [][DeviceNext]_vars

\* ------------------------------------------- the inbound stream, by reads
\* bytes the listener writes in one run
MaxStream == 5
\* bytes one recv(buffer_size) returns at most
MaxRead == 4

\* the two bytes of a character that UTF-8 writes with two, and the
\* character they decode to
Lead == "h"
Trail == "t"
Wide == "e"
Bytes == {"g", "x", NUL, Lead, Trail}

\* bytes.decode(): the text of a chunk; UnicodeDecodeError (ok FALSE) when
\* the chunk ends inside a character or starts inside one
RECURSIVE utf8_decode(_, _, _)
utf8_decode(chunk, i, text) ==
    IF i > Len(chunk) THEN [ok |-> TRUE, text |-> text]
    ELSE IF chunk[i] = Lead
         THEN IF i < Len(chunk) /\ chunk[i + 1] = Trail
              THEN utf8_decode(chunk, i + 2, Append(text, Wide))
              ELSE [ok |-> FALSE, text |-> text]
         ELSE IF chunk[i] = Trail
              THEN [ok |-> FALSE, text |-> text]
              ELSE utf8_decode(chunk, i + 1, Append(text, chunk[i]))
bytes_decode(chunk) == utf8_decode(chunk, 1, <<>>)

\* what the listener writes: the encoding of a text
Streams == {s \in SeqsUpTo(Bytes, MaxStream) : s # <<>> /\ bytes_decode(s).ok}

\* a connected client whose thread is about to read, and the bytes the
\* listener is going to write
FramingInit ==
    /\ ip_address = Host
    /\ socket = 1
    /\ os = [s \in Sockets |-> IF s = 1 THEN "open" ELSE "unborn"]
    /\ close_socket = FALSE
    /\ message_queue = <<>>
    /\ since_activity = 0
    /\ handle_connection_thread = 1
    /\ thread = [s \in Sockets |->
                   IF s = 1 THEN [NoThread EXCEPT !.pc = "recv", !.rs = 1]
                   ELSE NoThread]
    /\ owner = IdleOwner
    /\ nextId = 0
    /\ recvs = 0
    /\ dispatched = 0
    /\ keepalives = 0
    /\ wire = <<>>
    /\ events = <<>>
    /\ device_init
    /\ stream \in Streams
    /\ readpos = 0
    /\ framed = <<>>

\* "received_data = rs.recv(self.buffer_size).decode();
\*  self.process_received_data(buffer, received_data)": recv returns the next
\* k bytes; a UnicodeDecodeError or what decode_message raises ends the
\* thread; otherwise the thread comes round to read again
frame_recv ==
    /\ thread[1].pc = "recv"
    /\ readpos < Len(stream)
    /\ \E k \in 1..MaxRead :
         /\ readpos + k <= Len(stream)
         /\ readpos' = readpos + k
         /\ LET received == bytes_decode(SubSeq(stream, readpos + 1, readpos + k))
                res == process_received_data(thread[1].buffer, received.text, 0)
            IN IF ~received.ok
               THEN /\ thread' = [thread EXCEPT ![1] = Exit(1, "unicode")]
                    /\ framed' = framed
               ELSE /\ framed' = framed \o res.frames
                    /\ thread' = [thread EXCEPT ![1] =
                          IF res.raised THEN Exit(1, "decode")
                          ELSE [@ EXCEPT !.buffer = res.buffer]]
    /\ UNCHANGED <<ip_address, socket, os, close_socket, message_queue,
                   since_activity, handle_connection_thread, owner, nextId,
                   recvs, dispatched, keepalives, wire, events, stream>>
    /\ UNCHANGED devvars

FramingNext == frame_recv

FramingSpec == FramingInit /\ [][FramingNext]_vars

\* ================================================================== claims
Workers == {w \in Sockets : Running(w)}
KeepalivesOnWire ==
    Cardinality({i \in 1..Len(wire) : wire[i].msg.kind = "keepalive"})
SocketsCreated == {s \in Sockets : os[s] # "unborn"}

\* C1: FIFO send order.  What is written to a socket is in the order in which
\* it was put on the queue (ids are given in that order), keep-alive and
\* disconnect notices included.
C1_FifoOnWire ==
    \A i \in 1..Len(wire) : \A j \in 1..Len(wire) :
        (i < j /\ wire[i].sock = wire[j].sock) => wire[i].msg.id < wire[j].msg.id

\* C2: no message is dropped by the loop.  A step that takes a message off
\* the queue takes exactly the oldest one and leaves a worker holding it with
\* a writable socket to write it to; otherwise the queue is unchanged.
C2_PopOnlyWhenWritable ==
    [][Len(message_queue') < Len(message_queue) =>
         /\ Len(message_queue') = Len(message_queue) - 1
         /\ \E w \in Sockets :
              /\ thread'[w].pc = "send"
              /\ thread'[w].msg = message_queue[Len(message_queue)]
              /\ thread'[w].ws # NoSocket]_vars

\* C3: decode and routing failures are contained.  Whatever a worker reads
\* from a healthy socket, the worker keeps running, the socket and its handle
\* stay as they are and no disconnect event is raised.
C3_DecodeFailureContained ==
    [][\A w \in Sockets :
         (thread[w].pc = "recv" /\ os[thread[w].rs] = "open" /\ recvs' # recvs)
         => /\ thread'[w].pc # "done"
            /\ socket' = socket
            /\ os' = os
            /\ events' = events]_vars

\* C4: transport-error exit path.  When a worker's send or recv fails on a
\* socket that is no longer connected, the worker clears the handle, raises
\* exactly one disconnect event with unexpected=true and ends, and no
\* shutdown/close is performed on any socket.
C4_TransportErrorExit ==
    [][\A w \in Sockets :
         ( /\ \/ thread[w].pc = "send" /\ os[thread[w].ws] # "open"
              \/ thread[w].pc = "recv" /\ os[thread[w].rs] # "open"
           /\ thread'[w] # thread[w] )
         => /\ thread'[w].pc = "done"
            /\ socket' = NoSocket
            /\ events' = Append(events, TRUE)
            /\ os' = os]_vars

\* C5: disconnect() completes.  When a disconnect() that found the
\* connection connected returns, the worker has ended, the handle is null
\* and is_connected is false.
C5_DisconnectReturnsClean ==
    owner.pc = "d_ret" =>
        /\ Finished(handle_connection_thread)
        /\ socket = NoSocket
        /\ ~is_connected

\* C6: graceful close event.  A disconnect() that found the connection
\* connected has, when it returns, produced exactly one disconnect event, with
\* unexpected=false.
C6_OneGracefulEvent ==
    owner.pc = "d_ret" =>
        SubSeq(events, owner.ev0 + 1, Len(events)) = <<FALSE>>

\* C7 as stated: a connect() that returns false (no endpoint known, or the OS
\* connect failed) starts no worker and leaves the handle null and
\* is_connected false.
C7_FailedConnectAsStated ==
    [][(owner.pc # "c_ret" /\ owner'.pc = "c_ret" /\ owner'.ret = "false")
         => /\ thread' = thread
            /\ handle_connection_thread' = handle_connection_thread
            /\ socket' = NoSocket
            /\ ~is_connected']_vars

\* C7 as amended: a connect() that returns false starts no worker; when the
\* OS connect failed the handle is null and is_connected false afterwards;
\* when no endpoint is known the call changes nothing, so the handle is null
\* exactly when it was null before the call.
C7_FailedConnect ==
    [][(owner.pc # "c_ret" /\ owner'.pc = "c_ret" /\ owner'.ret = "false")
         => /\ thread' = thread
            /\ handle_connection_thread' = handle_connection_thread
            /\ owner'.fail = "oserror" => (socket' = NoSocket /\ ~is_connected')
            /\ owner'.fail = "noip" =>
                 (socket' = socket /\ os' = os /\ is_connected' = is_connected)]_vars

\* a connect() whose OS connect failed has just returned false
C7_Witness ==
    /\ owner.pc = "c_ret"
    /\ owner.ret = "false"
    /\ owner.fail = "oserror"
    /\ socket = NoSocket

\* C8: send while disconnected.  Every send_message call (each creates one
\* message) made while not connected leaves the queue unchanged and raises
\* one disconnect event with unexpected=true; made while connected it puts
\* exactly that one message on the queue and raises no event.
C8_SendContract ==
    [][nextId' = nextId + 1 =>
         IF is_connected
         THEN /\ Len(message_queue') = Len(message_queue) + 1
              /\ SubSeq(message_queue', 2, Len(message_queue')) = message_queue
              /\ message_queue'[1].id = nextId'
              /\ events' = events
         ELSE /\ message_queue' = message_queue
              /\ events' = Append(events, TRUE)]_vars

\* a send was made on a client that never connected: one event, empty queue
C8_Witness ==
    /\ nextId = 1
    /\ SocketsCreated = {}
    /\ events = <<TRUE>>
    /\ message_queue = <<>>

\* C9: idle keepalive.  With a single connection, an idle period puts one
\* keep-alive on the wire before the idle interval is measured again: the
\* keep-alives queued so far exceed those written by at most one.
C9_OneKeepalivePerIdlePeriod ==
    Cardinality(SocketsCreated) <= 1 => keepalives - KeepalivesOnWire <= 1

\* C10: single worker.  At most one handle_connection thread is running.
C10_SingleWorker == Cardinality(Workers) <= 1

\* ------------------------------------------------- claims on DeviceUnreal
\* the step in which route_message handles a message of kind k
Routing(k) == inbox.kind = k /\ inbox' = NoEvent
InFlight == remote_programs_start_queue
\* the in-flight table lost exactly the entry of command id m
Consumed(m) ==
    /\ DOMAIN InFlight' = DOMAIN InFlight \ {m}
    /\ \A x \in DOMAIN InFlight' : InFlight'[x] = InFlight[x]
\* the device put exactly one message of kind k on the client's queue
Enqueued(k) ==
    /\ Len(message_queue') = Len(message_queue) + 1
    /\ SubSeq(message_queue', 2, Len(message_queue')) = message_queue
    /\ message_queue'[1].kind = k
    /\ message_queue'[1].id = nextId'
\* the in-flight table gained exactly one entry, for the new message, named l
Recorded(l) ==
    /\ nextId' = nextId + 1
    /\ DOMAIN InFlight' = DOMAIN InFlight \cup {nextId'}
    /\ nextId' \notin DOMAIN InFlight
    /\ InFlight'[nextId'] = l
    /\ \A x \in DOMAIN InFlight : InFlight'[x] = InFlight[x]

\* C11: start-confirmed correlation.  Routing a program-started message whose
\* command id is in the in-flight table calls the start-confirmed delegate
\* (and it returns), removes exactly that entry, records the program id under
\* the recorded name in both running-program tables, and sets status to Open
\* when the name is the launch name and leaves it alone otherwise.
C11_StartConfirmed ==
    [][(Routing("program started") /\ dict_has(InFlight, inbox.mid)) =>
         LET name == InFlight[inbox.mid]
         IN /\ routed' = [delegate |-> "program_started_delegate",
                          raised |-> FALSE]
            /\ Consumed(inbox.mid)
            /\ dict_has(running_remote_program_names', inbox.pid)
            /\ running_remote_program_names'[inbox.pid] = name
            /\ dict_has(running_remote_program_ids', name)
            /\ running_remote_program_ids'[name] = inbox.pid
            /\ name = "unreal" => status' = "Open"
            /\ name # "unreal" => status' = status]_vars

\* a sync command was confirmed started: the entry is gone, the program is
\* registered, the status is still Syncing
C11_Witness ==
    /\ routed = [delegate |-> "program_started_delegate", raised |-> FALSE]
    /\ status = "Syncing"
    /\ dict_has(running_remote_program_ids, "sync")
    /\ InFlight = EmptyDict

\* C12: consumed identifiers do not silently succeed.  Routing a
\* program-started or start-failed message whose command id is not in the
\* in-flight table ends in an exception (logged as an error) and leaves the
\* status, the in-flight table and both running-program tables as they were.
C12_UnknownIdRejected ==
    [][((Routing("program started") \/ Routing("program start failed"))
        /\ ~dict_has(InFlight, inbox.mid)) =>
         /\ routed'.raised
         /\ UNCHANGED <<status, remote_programs_start_queue,
                        running_remote_program_names,
                        running_remote_program_ids>>]_vars

\* a second start-confirmed for a command already confirmed was rejected
C12_Witness ==
    /\ routed = [delegate |-> "program_started_delegate", raised |-> TRUE]
    /\ running_remote_program_names # EmptyDict
    /\ InFlight = EmptyDict

\* C13 as stated: build() called while status is Syncing sets the flag, sends
\* and records nothing and does not touch the status; called in any other
\* status it records one in-flight command named build, puts exactly one
\* start-process message on the queue and sets status to Building.
C13_BuildAsStated ==
    [][/\ (caller = "idle" /\ caller' = "build_defer") => status = "Syncing"
       /\ (caller = "idle" /\ caller' = "build_issue") => status # "Syncing"
       /\ (caller = "build_defer" /\ caller' = "idle") =>
            /\ start_build_after_sync'
            /\ UNCHANGED <<message_queue, nextId, remote_programs_start_queue,
                           status>>
       /\ (caller = "build_issue" /\ caller' = "idle") =>
            /\ Recorded("build")
            /\ Enqueued("start")
            /\ status' = "Building"]_vars

\* C13 as amended: the same, but the start-process message is put on the
\* queue only when the client is connected; when it is not, nothing is put
\* on the queue and the device signals that the client is disconnected
\* (the command is recorded and the status set to Building all the same).
C13_BuildDeferral ==
    [][/\ (caller = "idle" /\ caller' = "build_defer") => status = "Syncing"
       /\ (caller = "idle" /\ caller' = "build_issue") => status # "Syncing"
       /\ (caller = "build_defer" /\ caller' = "idle") =>
            /\ start_build_after_sync'
            /\ UNCHANGED <<message_queue, nextId, remote_programs_start_queue,
                           status>>
       /\ (caller = "build_issue" /\ caller' = "idle") =>
            /\ Recorded("build")
            /\ IF is_connected
               THEN Enqueued("start") /\ emitted' = <<>>
               ELSE /\ message_queue' = message_queue
                    /\ emitted' = <<"signal_device_client_disconnected">>
            /\ status' = "Building"]_vars

\* build() was called during a sync and has returned: the flag is set, the
\* status is Syncing and the only command recorded is the sync
C13_Witness ==
    /\ caller = "idle"
    /\ start_build_after_sync
    /\ status = "Syncing"
    /\ nextId = 1
    /\ Len(message_queue) = 1

\* the command id of the message that started program p
MidOf(p) == p - MaxCmds
\* the step in which route_message handles the end of a program named l
Ended(l) ==
    /\ Routing("program ended")
    /\ dict_has(running_remote_program_names, inbox.pid)
    /\ running_remote_program_names[inbox.pid] = l

\* C14: successful sync.  When the end of the program started by sync(c) is
\* routed with return code 0, the changelist becomes c; if the deferred-build
\* flag is set (build() was called while Syncing) the flag is cleared, a
\* build command is recorded and the status is Building; otherwise no
\* command is issued and the status is Closed.
C14_SyncSucceeded ==
    [][(Ended("sync") /\ inbox.rc = 0) =>
         /\ changelist' = asked[MidOf(inbox.pid)]
         /\ IF start_build_after_sync
            THEN /\ ~start_build_after_sync'
                 /\ Recorded("build")
                 /\ status' = "Building"
            ELSE /\ nextId' = nextId
                 /\ InFlight' = InFlight
                 /\ status' = "Closed"]_vars

\* C15: failed sync.  sync(c) itself leaves the changelist alone, and when
\* the end of its program is routed with a nonzero return code the status
\* becomes Closed, the changelist stays, the sync-failed signal is emitted
\* exactly once and no command is issued.
C15_SyncFailed ==
    [][/\ (caller = "idle" /\ status' = "Syncing" /\ nextId' = nextId + 1) =>
            changelist' = changelist
       /\ (Ended("sync") /\ inbox.rc # 0) =>
            /\ status' = "Closed"
            /\ changelist' = changelist
            /\ emitted' = <<"signal_device_sync_failed">>
            /\ nextId' = nextId
            /\ InFlight' = InFlight]_vars

\* sync and build commands whose outcome the listener has not reported yet
Outstanding(l) ==
    Cardinality({m \in DOMAIN InFlight : InFlight[m] = l})
    + Cardinality({q \in DOMAIN running_remote_program_names :
                       running_remote_program_names[q] = l})
AllReported ==
    /\ inbox = NoEvent
    /\ caller = "idle"
    /\ Outstanding("sync") = 0
    /\ Outstanding("build") = 0
\* the message being routed is the outcome of the one command that the
\* status shows as running
OutcomeOfRunning ==
    \E l \in {"sync", "build"} :
        /\ status = (IF l = "sync" THEN "Syncing" ELSE "Building")
        /\ Outstanding(l) = 1
        /\ \/ /\ Routing("program start failed")
              /\ dict_has(InFlight, inbox.mid)
              /\ InFlight[inbox.mid] = l
           \/ Ended(l)

C17_KillFailed ==
    [][( /\ Routing("program kill failed")
         /\ dict_has(running_remote_program_ids, "unreal")
         /\ running_remote_program_ids["unreal"] = inbox.pid ) =>
         /\ status' = "Closed"
         /\ ~dict_has(running_remote_program_names', inbox.pid)
         /\ ~dict_has(running_remote_program_ids', "unreal")]_vars

\* the kill message close() sent for program q is on the queue
KillSent(q) ==
    \E i \in 1..Len(message_queue) :
        message_queue[i].kind = "kill" /\ message_queue[i].arg = q

\* C18: Open leaves to Closed on kill.  With the device Open and the kill
\* message for the launched program sent, routing the program-killed message
\* for that program sets the status to Closed.
C18_KilledCloses ==
    [][( /\ Routing("program killed")
         /\ status = "Open"
         /\ dict_has(running_remote_program_ids, "unreal")
         /\ running_remote_program_ids["unreal"] = inbox.pid
         /\ KillSent(inbox.pid) ) =>
         status' = "Closed"]_vars

\* C19 as stated: idempotent close.  In every state in which close() can be
\* called: with no program registered under the launch name it sets the
\* status to Closed, creates no message, and a second call changes nothing
\* more; with one registered it puts exactly one kill message for that
\* program on the queue and leaves the status and the tables alone.
C19_CloseAsStated ==
    (caller = "idle") =>
        LET d == close(Dev)
        IN IF ~dict_has(running_remote_program_ids, "unreal")
           THEN /\ d.status = "Closed"
                /\ d.message_queue = message_queue
                /\ d.nextId = nextId
                /\ close(d) = d
           ELSE /\ Len(d.message_queue) = Len(message_queue) + 1
                /\ SubSeq(d.message_queue, 2, Len(d.message_queue)) = message_queue
                /\ d.message_queue[1].kind = "kill"
                /\ d.message_queue[1].arg = running_remote_program_ids["unreal"]
                /\ d.status = status
                /\ d.names = running_remote_program_names
                /\ d.ids = running_remote_program_ids

\* C19 as amended: the same, but the kill message is put on the queue only
\* when the client is connected; when it is not, nothing is put on the queue
\* and the device signals that the client is disconnected.
C19_IdempotentClose ==
    (caller = "idle") =>
        LET d == close(Dev)
        IN IF ~dict_has(running_remote_program_ids, "unreal")
           THEN /\ d.status = "Closed"
                /\ d.message_queue = message_queue
                /\ d.nextId = nextId
                /\ close(d) = d
           ELSE /\ IF is_connected
                   THEN /\ Len(d.message_queue) = Len(message_queue) + 1
                        /\ SubSeq(d.message_queue, 2, Len(d.message_queue))
                             = message_queue
                        /\ d.message_queue[1].kind = "kill"
                        /\ d.message_queue[1].arg
                             = running_remote_program_ids["unreal"]
                        /\ d.emitted = <<>>
                   ELSE /\ d.message_queue = message_queue
                        /\ d.emitted = <<"signal_device_client_disconnected">>
                /\ d.status = status
                /\ d.names = running_remote_program_names
                /\ d.ids = running_remote_program_ids

\* close() was called for a launched program: its kill message is the newest
\* on the queue and the device is still Open
C19_Witness ==
    /\ status = "Open"
    /\ dict_has(running_remote_program_ids, "unreal")
    /\ Len(message_queue) = 2
    /\ message_queue[1].kind = "kill"
    /\ message_queue[1].arg = running_remote_program_ids["unreal"]

\* C20: start-failed.  Routing a start-failed message whose command id is in
\* the in-flight table removes exactly that entry and leaves the
\* running-program tables and the changelist alone; the status becomes
\* Closed when the recorded name is sync or build and is unchanged when it is
\* the launch or the changelist query.
C20_StartFailed ==
    [][(Routing("program start failed") /\ dict_has(InFlight, inbox.mid)) =>
         LET name == InFlight[inbox.mid]
         IN /\ ~routed'.raised
            /\ Consumed(inbox.mid)
            /\ UNCHANGED <<running_remote_program_names,
                           running_remote_program_ids, changelist>>
            /\ name \in {"sync", "build"} => status' = "Closed"
            /\ name \in {"unreal", "cstat"} => status' = status]_vars

\* a build command failed to start: its entry is gone, the status is Closed
C20_Witness ==
    /\ routed = [delegate |-> "program_start_failed_delegate", raised |-> FALSE]
    /\ nextId = 1
    /\ inflight_changelist = 0
    /\ InFlight = EmptyDict
    /\ running_remote_program_names = EmptyDict
    /\ Len(message_queue) = 1
    /\ status = "Closed"

\* the characters of output that are not whitespace
Inked(output) == {i \in 1..Len(output) : output[i] # Whitespace}
\* where the last whitespace-separated token of output ends and starts
TokenEnd(output) == CHOOSE b \in Inked(output) : \A i \in Inked(output) : i <= b
TokenStart(output) ==
    CHOOSE a \in 1..TokenEnd(output) :
        /\ \A i \in a..TokenEnd(output) : i \in Inked(output)
        /\ a = 1 \/ (a - 1) \notin Inked(output)
\* the number the digits output[a..b] spell
RECURSIVE Spelled(_, _, _)
Spelled(output, a, b) ==
    IF a = b THEN output[b] ELSE 10 * Spelled(output, a, b - 1) + output[b]

DisconnectEvent ==
    /\ socket # NoSocket
    /\ socket' = NoSocket
    /\ Len(events') = Len(events) + 1

\* C22: a disconnect event leaves the device's state alone.  The step in
\* which the client's thread delivers a disconnect event emits the
\* client-disconnected signal exactly once when the event is unexpected and
\* emits nothing when it is not, and in both cases leaves the status, the
\* in-flight table, the running-program tables, the deferred-build flag and
\* the changelist as they were.
C22_DisconnectLeavesDevice ==
    [][DisconnectEvent =>
         /\ emitted' = IF events'[Len(events')]
                       THEN <<"signal_device_client_disconnected">>
                       ELSE <<>>
         /\ UNCHANGED <<status, remote_programs_start_queue,
                        running_remote_program_names,
                        running_remote_program_ids, start_build_after_sync,
                        changelist>>]_vars

\* a graceful disconnect during a sync: one event, not unexpected, nothing
\* signalled, the device still Syncing with its program registered
C22_Witness ==
    /\ events = <<FALSE>>
    /\ os[1] = "closed"
    /\ emitted = <<>>
    /\ status = "Syncing"
    /\ dict_has(running_remote_program_ids, "sync")
    /\ message_queue[1].kind = "disconnect"

\* the whole stream arriving in one read
WholeStream == process_received_data(<<>>, bytes_decode(stream).text, 0)

\* C23: framing is independent of how the stream is cut into reads.  Once
\* the reading is over (every byte of the stream was returned by some read,
\* or the thread has ended), the frames handed to the decoder are those of
\* the whole stream arriving in one read, in the same order, and a thread
\* that goes on holds the same unfinished frame in its buffer.
C23_FramingIndependent ==
    (readpos = Len(stream) \/ thread[1].pc = "done") =>
        /\ framed = WholeStream.frames
        /\ thread[1].pc = "recv" => thread[1].buffer = WholeStream.buffer

\* the step in which a worker, its connection in order, shuts the socket
\* down because close_socket is set, and reports a disconnect that is not
\* unexpected
GracefulClose ==
    /\ socket # NoSocket
    /\ os[socket] = "open"
    /\ Len(events') = Len(events) + 1
    /\ ~events'[Len(events')]

\* C24: the disconnect notice reaches the wire.  When a worker shuts down
\* the socket of a connection in order, the notice disconnect() put on the
\* queue has been written to that socket and no message is left on the
\* queue.
C24_NoticeReachesWire ==
    [][GracefulClose =>
         /\ \E i \in 1..Len(wire) :
               wire[i].sock = socket /\ wire[i].msg.kind = "disconnect"
         /\ message_queue = <<>>]_vars

\* the step in which connect() starts the worker of socket s
WorkerStarts(s) == thread[s].pc = "none" /\ thread'[s].pc = "loop"

\* C25: messages do not cross connections.  When connect() starts a new
\* worker and every earlier worker has ended, the queue is empty (nothing
\* can be put on the queue between the end of a connection and the start of
\* the next, so whatever is on it then was put there during an earlier
\* connection and would be written to the new socket).
C25_NoStaleMessages ==
    [][(/\ \E s \in Sockets : WorkerStarts(s)
        /\ \A w \in Sockets : ~Running(w)) => message_queue = <<>>]_vars

\* C26: the running-program tables stay mutually inverse.  In every state
\* program id p is registered under name l exactly when name l is
\* registered with program id p.
C26_TablesInverse ==
    /\ \A p \in DOMAIN running_remote_program_names :
          LET l == running_remote_program_names[p]
          IN dict_has(running_remote_program_ids, l)
             /\ running_remote_program_ids[l] = p
    /\ \A l \in DOMAIN running_remote_program_ids :
          LET p == running_remote_program_ids[l]
          IN dict_has(running_remote_program_names, p)
             /\ running_remote_program_names[p] = l

\* C27: a deferred build belongs to the sync it was requested during.  The
\* deferred-build flag is set only while the status is Syncing.
C27_FlagOnlyWhileSyncing ==
    (status # "Syncing") => ~start_build_after_sync

\* the one command issued so far is a sync to a changelist other than the
\* initial one, and it has ended successfully: the changelist is now the one
\* it asked for
OnlySyncSucceeded ==
    /\ nextId = 1
    /\ dict_has(asked, 1)
    /\ asked[1] # 1
    /\ changelist = asked[1]
    /\ running_remote_program_names = EmptyDict
    /\ inbox = NoEvent

\* C28: a build request is never lost to a race.  There is no state in
\* which the only sync has ended successfully, build() has been called and
\* has returned, no build command was issued, and the deferred-build flag
\* is set while the status is Closed.
C28_BuildNotLost ==
    ~(/\ OnlySyncSucceeded
      /\ caller = "idle"
      /\ start_build_after_sync
      /\ status = "Closed")
====
